---- MODULE Spec2Model ----
(***************************************************************************)
(* Model of ssh_generate.py: the HTTP request helper (Response, request),  *)
(* convert_vcs and the key-rotation workflow main().                       *)
(*                                                                         *)
(* Text that the program inspects character by character (URLs, public     *)
(* keys, organization and project names) is a sequence of one-character    *)
(* strings, so that split, startswith and casefold are computed as Python  *)
(* computes them.  Text that is only compared as a whole (key types, the   *)
(* payload type, exception names) is a TLA+ string.                        *)
(***************************************************************************)
EXTENDS Integers, Sequences, FiniteSets, TLC

VARIABLES
    pc,              \* position of main(): start, list, loop, keys, create, post, done, failed
    argv,            \* sys.argv[2..4]: [org, vcs, project]
    VCS,             \* canonical VCS after convert_vcs (<<>> before)
    projects,        \* projects_resp['projects'] (<<>> before line 127)
    project_names,   \* the list built at lines 128-143
    idx,             \* position of the for loop of line 147 in project_names
    payload,         \* payload["type"] of lines 176-181 ("" when unset)
    resp,            \* the Response of the latest request() (projects_resp,
                     \* ssh_keys_resp, checkout_key_resp), NoResponse until it returns
    trace,           \* external effects in order: HTTP calls sent, lines appended
                     \* to old_keys_<org>.txt and to new_keys_<org>.txt
    err,             \* the exception that ended the run ("" when none)
    rq               \* a single call of request() on an arbitrary URL

vars == <<pc, argv, VCS, projects, project_names, idx, payload,
          resp, trace, err, rq>>

mainVars == <<pc, argv, VCS, projects, project_names, idx, payload,
              resp, trace, err>>

-----------------------------------------------------------------------------
(* Bounds of the model.                                                    *)

MaxProjects == 2      \* projects in one organization settings response
MaxKeys == 2          \* checkout keys in one key-list response

-----------------------------------------------------------------------------
(* Text helpers.                                                           *)

\* str.startswith
StartsWith(s, p) == Len(s) >= Len(p) /\ SubSeq(s, 1, Len(p)) = p

\* str.casefold on the characters the model uses
FoldChar(c) ==
    CASE c = "H" -> "h"
      [] c = "T" -> "t"
      [] c = "P" -> "p"
      [] c = "S" -> "s"
      [] c = "A" -> "a"
      [] OTHER -> c

casefold(s) == [i \in 1..Len(s) |-> FoldChar(s[i])]

\* str.split(sep): the list of the pieces between separators, empty pieces kept
RECURSIVE split(_, _)
split(s, sep) ==
    IF s = <<>> THEN << <<>> >>
    ELSE LET rest == split(Tail(s), sep) IN
         IF Head(s) = sep
         THEN << <<>> >> \o rest
         ELSE << <<Head(s)>> \o Head(rest) >> \o Tail(rest)

\* first position of a character of set cs in s, 0 when there is none
FirstOf(s, cs) ==
    IF \E i \in 1..Len(s) : s[i] \in cs
    THEN CHOOSE i \in 1..Len(s) : s[i] \in cs /\ \A j \in 1..(i - 1) : s[j] \notin cs
    ELSE 0

\* n copies of x
Repeat(x, n) == [i \in 1..n |-> x]

-----------------------------------------------------------------------------
(* JSON values as Python sees them: a str or a dict.                       *)

JStr(s) == [t |-> "str", v |-> s]
JDict(d) == [t |-> "dict", v |-> d]

\* key in obj: a key test on a dict, a substring test on a str; no key of
\* the model is a substring of the only str json() can yield, ""
HasKey(obj, key) == obj.t = "dict" /\ key \in DOMAIN obj.v

\* a json() that yields an empty dict, not "", when the body is not JSON
jsonEmptyDict(r) == IF r.body.valid THEN r.body.value ELSE JDict(<<>>)
\* Response.json(): the decoded body, "" when the body is not JSON
json(r) == IF r.body.valid THEN r.body.value ELSE JStr("")

-----------------------------------------------------------------------------
(* request().                                                              *)

HTTP == <<"h", "t", "t", "p">>

\* a request() without its guard
UrlRefusedAny(url) == FALSE

\* the guard of request(): the URL is refused unless its casefolded text
\* starts with "http"
UrlRefused(url) == ~StartsWith(casefold(url), HTTP)

\* What follows the guard is the standard library's: Request() splits the
\* URL into scheme, host and path, and urlopen() hands it to the handler of
\* its scheme (http, https, ftp, file) or raises when there is none.

\* urllib's scheme: the text before the first ":" when no "/" precedes it,
\* lower-cased; <<>> when the URL has none
UrlScheme(url) ==
    LET i == FirstOf(url, {":", "/"}) IN
    IF i > 1 /\ url[i] = ":" THEN casefold(SubSeq(url, 1, i - 1)) ELSE <<>>

\* urllib's host: the text after "//" up to the next "/", <<>> when absent
UrlHost(url) ==
    LET i == FirstOf(url, {":", "/"})
        rest == SubSeq(url, i + 1, Len(url))
    IN  IF StartsWith(rest, <<"/", "/">>)
        THEN LET after == SubSeq(rest, 3, Len(rest))
                 j == FirstOf(after, {"/"})
             IN  IF j = 0 THEN after ELSE SubSeq(after, 1, j - 1)
        ELSE <<>>

\* what Request(...) and urlopen(...) do with a URL: "net" a network call,
\* "local" a local file read, otherwise the exception raised before any call
urlopen(url) ==
    LET scheme == UrlScheme(url) IN
    IF scheme = <<>> THEN "ValueError"
    ELSE IF scheme \in {<<"h", "t", "t", "p">>, <<"h", "t", "t", "p", "s">>,
                        <<"f", "t", "p">>}
         THEN IF UrlHost(url) = <<>> THEN "URLError" ELSE "net"
    ELSE IF scheme = <<"f", "i", "l", "e">> THEN "local"
    ELSE "URLError"

\* str.upper on the method names the model uses
upper(method) ==
    CASE method = "get" -> "GET"
      [] method = "post" -> "POST"
      [] OTHER -> method

\* request() up to the call of urlopen: the guard, the method, the body
\* (GET moves data into the query string and sends no body)
request_send(url, method, has_data) ==
    IF UrlRefused(url)
    THEN [how |-> "URLError", method |-> "", url |-> url, body |-> FALSE]
    ELSE LET m == upper(method) IN
         [how |-> urlopen(url), method |-> m, url |-> url,
          body |-> (m # "GET" /\ has_data)]

\* a request() that forgets to count the HTTPError
make_responseNoCount(outcome, error_count) ==
    [body |-> outcome.body, status |-> outcome.status, error_count |-> error_count]

\* the Response request() builds from what urlopen returned or raised
make_response(outcome, error_count) ==
    IF outcome.k = "ok"
    THEN [body |-> outcome.body, status |-> outcome.status, error_count |-> 0]
    ELSE [body |-> outcome.body, status |-> outcome.status,
          error_count |-> error_count + 1]

-----------------------------------------------------------------------------
(* convert_vcs.                                                            *)

GH == <<"g", "h">>
BB == <<"b", "b">>
GITHUB == <<"g", "i", "t", "h", "u", "b">>
BITBUCKET == <<"b", "i", "t", "b", "u", "c", "k", "e", "t">>

vcs_map == (GH :> GITHUB) @@ (BB :> BITBUCKET) @@ (GITHUB :> GITHUB) @@
           (BITBUCKET :> BITBUCKET)

\* the canonical name, <<>> standing for the exception of line 101
convert_vcs(vcs_input) ==
    IF vcs_input \in DOMAIN vcs_map THEN vcs_map[vcs_input] ELSE <<>>

-----------------------------------------------------------------------------
(* The URLs main() formats.                                                *)

API == <<"h", "t", "t", "p", "s", ":", "/", "/", "c", "i">>

projects_url(vcs, org) ==
    API \o <<"/", "o", "/">> \o vcs \o <<"/">> \o org \o <<"/", "s">>

ssh_keys_url(vcs, org, project) ==
    API \o <<"/", "p", "/">> \o vcs \o <<"/">> \o org \o <<"/">> \o project
        \o <<"/", "k">>

checkout_key_url(vcs, org, project) == ssh_keys_url(vcs, org, project)

-----------------------------------------------------------------------------
(* The inputs: the command line and what the provider answers.             *)

ArgOrgs == {<<"a">>, <<"b">>}
ArgVcs == {GH, <<"G", "H">>}
ArgProjects == {<<>>, <<"w">>, <<"z">>}

Argvs == [org : ArgOrgs, vcs : ArgVcs, project : ArgProjects]

UrlOrgs == {<<"a">>, <<"A">>}
UrlNames == {<<"w">>, <<"x">>}
VcsHost == <<"h", "t", "t", "p", "s", ":", "/", "/", "g">>

VcsUrl(org, name) == VcsHost \o <<"/">> \o org \o <<"/">> \o name

Followers == {<<>>, <<"u">>}

Projects == {[vcs_url |-> VcsUrl(o, n), followers |-> f] :
                o \in UrlOrgs, n \in UrlNames, f \in Followers}

\* the provider lists a project once
ProjectLists ==
    {l \in UNION {[1..n -> Projects] : n \in 0..MaxProjects} :
        \A i, j \in 1..Len(l) : l[i].vcs_url = l[j].vcs_url => i = j}

RSA == <<"s", "s", "h", "-", "r", "s", "a", " ", "A">>
ED25519 == <<"s", "s", "h", "-", "e", "d", "2", "5", "5", "1", "9", " ", "A">>
SHORT == <<"s", "s", "h", "-", "r", "s">>

KeyTypes == {"github-user-key", "deploy-key", "user-key"}

Keys == [preferred : BOOLEAN, public_key : {RSA, ED25519, SHORT}, type : KeyTypes]

\* the keys after the first are never read: one value stands for them, the
\* one a search through the whole list would rotate
LaterKey == [preferred |-> TRUE, public_key |-> RSA, type |-> "github-user-key"]

KeyLists == {<<>>} \cup
            {<<k>> \o Repeat(LaterKey, n) : k \in Keys, n \in 0..(MaxKeys - 1)}

NotJson == [valid |-> FALSE, value |-> JStr("")]
Json(v) == [valid |-> TRUE, value |-> v]

\* an answer of urlopen: a response, an HTTPError, or any other failure
ErrorOutcomes ==
    {[k |-> "httperror", status |-> s, body |-> NotJson] : s \in {403, 404, 500}}
        \cup {[k |-> "transport", status |-> 0, body |-> NotJson]}

OkOutcomes(status, values) ==
    {[k |-> "ok", status |-> status, body |-> b] :
        b \in {NotJson} \cup {Json(v) : v \in values}}

OtherDict == JDict([message |-> "m"])

ProjectsOutcomes ==
    ErrorOutcomes \cup
    OkOutcomes(200, {OtherDict} \cup {JDict([projects |-> l]) : l \in ProjectLists})

KeysOutcomes ==
    ErrorOutcomes \cup
    OkOutcomes(200, {OtherDict} \cup {JDict([items |-> l]) : l \in KeyLists})

CreateOutcomes(type) ==
    ErrorOutcomes \cup
    OkOutcomes(201, {JDict([type |-> type, preferred |-> TRUE,
                            public_key |-> ED25519])})

NoResponse == [body |-> NotJson, status |-> 0, error_count |-> 0]

-----------------------------------------------------------------------------
(* The decisions of main().                                                *)

\* line 137 with the organization compared without regard to case
EligibleAnyCase(project, ORG) ==
    LET vcs_url_parts == split(project.vcs_url, "/") IN
    /\ Len(project.followers) > 0
    /\ casefold(vcs_url_parts[Len(vcs_url_parts) - 1]) = casefold(ORG)

\* line 137: the project has a follower and its organization is ORG
Eligible(project, ORG) ==
    LET vcs_url_parts == split(project.vcs_url, "/")
        org_name == vcs_url_parts[Len(vcs_url_parts) - 1]
    IN  Len(project.followers) > 0 /\ org_name = ORG

\* line 132
ProjectName(project) ==
    LET vcs_url_parts == split(project.vcs_url, "/") IN
    vcs_url_parts[Len(vcs_url_parts)]

\* lines 128-138: the names of the eligible projects, in the response's order
RECURSIVE FilterProjects(_, _)
FilterProjects(ps, ORG) ==
    IF ps = <<>> THEN <<>>
    ELSE (IF Eligible(Head(ps), ORG) THEN <<ProjectName(Head(ps))>> ELSE <<>>)
         \o FilterProjects(Tail(ps), ORG)

InList(x, l) == \E i \in 1..Len(l) : l[i] = x

\* lines 140-145 without the assignment of line 143
NarrowKeepAll(names, PROJECT) ==
    [found |-> (PROJECT = <<>> \/ InList(PROJECT, names)), names |-> names]

\* lines 140-145: the list to process; found = FALSE stands for the exception
Narrow(names, PROJECT) ==
    IF PROJECT # <<>>
    THEN IF InList(PROJECT, names)
         THEN [found |-> TRUE, names |-> <<PROJECT>>]
         ELSE [found |-> FALSE, names |-> names]
    ELSE [found |-> TRUE, names |-> names]

\* line 163 without the test of key_info['preferred']
IsLegacyAnyPreference(key_info) ==
    StartsWith(key_info.public_key, <<"s", "s", "h", "-", "r", "s", "a">>)

\* line 163
IsLegacy(key_info) ==
    key_info.preferred
        /\ StartsWith(key_info.public_key, <<"s", "s", "h", "-", "r", "s", "a">>)

\* lines 176-181 with the type compared to the type that is requested
PayloadTypeSame(ssh_key_type) ==
    IF ssh_key_type = "user-key" THEN "user-key" ELSE "deploy-key"

\* lines 176-181
PayloadType(ssh_key_type) ==
    IF ssh_key_type = "github-user-key" THEN "user-key" ELSE "deploy-key"

\* a main() without the branch of line 185
CreateSkippedNever(r) == FALSE

\* line 185
CreateSkipped(r) == r.status = 403

\* a main() without the branch of line 188
CreateFailedNever(r) == FALSE

\* line 188
CreateFailed(r) == r.error_count > 0

Event(ev, url, project, data) ==
    [ev |-> ev, url |-> url, project |-> project, data |-> data]

\* a main() that does not write the old key list
OldKeysNoWrite(effects, project, resp_json) == effects

\* lines 170-172: str(ssh_keys_resp) is appended to old_keys_<org>.txt
old_keys_write(effects, project, resp_json) ==
    Append(effects, Event("old_keys", <<>>, project, [text |-> resp_json]))

\* lines 193-195: "<project> new prefered key: <key>" is appended to
\* new_keys_<org>.txt
new_keys_write(effects, project, resp_json) ==
    Append(effects, Event("new_keys", <<>>, project,
                          [project |-> project, label |-> "new prefered key:",
                           key |-> resp_json]))

\* the HTTP call request() makes
http_call(effects, sent, project, data) ==
    Append(effects, Event(sent.method, sent.url, project, data))

-----------------------------------------------------------------------------
(* main().                                                                 *)

ORG == argv.org
PROJECT == argv.project

RqIdle == [phase |-> "none", url |-> <<>>, method |-> "", has_data |-> FALSE,
           error_count |-> 0, how |-> "", resp |-> NoResponse]

Init ==
    /\ pc = "start"
    /\ argv \in Argvs
    /\ VCS = <<>>
    /\ projects = <<>>
    /\ project_names = <<>>
    /\ idx = 1
    /\ payload = ""
    /\ resp = NoResponse
    /\ trace = <<>>
    /\ err = ""
    /\ rq = RqIdle

Fail(e) == pc' = "failed" /\ err' = e

\* lines 106-119: the arguments, convert_vcs, the settings request is sent
Start ==
    /\ pc = "start"
    /\ LET vcs == convert_vcs(argv.vcs)
           sent == request_send(projects_url(vcs, ORG), "GET", FALSE)
       IN  IF vcs = <<>>
           THEN Fail("invalid vcs provided") /\ UNCHANGED <<VCS, trace>>
           ELSE /\ VCS' = vcs
                /\ IF sent.how = "net"
                   THEN /\ trace' = http_call(trace, sent, <<>>, "")
                        /\ pc' = "list"
                        /\ err' = err
                   ELSE Fail(sent.how) /\ trace' = trace
    /\ resp' = NoResponse
    /\ UNCHANGED <<argv, projects, project_names, idx, payload, rq>>

\* lines 119-145: the settings response, the filter, the single-project filter
RecvProjects ==
    /\ pc = "list"
    /\ \E outcome \in ProjectsOutcomes :
         IF outcome.k = "transport"
         THEN Fail("URLError") /\ UNCHANGED <<resp, projects, project_names>>
         ELSE LET projects_resp == make_response(outcome, 0)
                  decoded == json(projects_resp)
              IN  /\ resp' = projects_resp
                  /\ IF projects_resp.error_count > 0
                     THEN Fail("error retrieving projects")
                          /\ UNCHANGED <<projects, project_names>>
                     ELSE IF ~HasKey(decoded, "projects")
                     THEN Fail("no projects found in response")
                          /\ UNCHANGED <<projects, project_names>>
                     ELSE LET names == FilterProjects(decoded.v.projects, ORG)
                              narrowed == Narrow(names, PROJECT)
                          IN  /\ projects' = decoded.v.projects
                              /\ project_names' = narrowed.names
                              /\ IF ~narrowed.found
                                 THEN Fail("project name is not found in list of projects")
                                 ELSE pc' = "loop" /\ err' = err
    /\ UNCHANGED <<argv, VCS, idx, payload, trace, rq>>

\* lines 147-150: the next project of the list, its key-list request is sent
LoopNext ==
    /\ pc = "loop"
    /\ IF idx > Len(project_names)
       THEN pc' = "done" /\ UNCHANGED <<trace, err, resp>>
       ELSE LET project == project_names[idx]
                sent == request_send(ssh_keys_url(VCS, ORG, project), "GET", FALSE)
            IN  /\ resp' = NoResponse
                /\ IF sent.how = "net"
                   THEN /\ trace' = http_call(trace, sent, project, "")
                        /\ pc' = "keys"
                        /\ err' = err
                   ELSE Fail(sent.how) /\ trace' = trace
    /\ UNCHANGED <<argv, VCS, projects, project_names, idx, payload, rq>>

\* lines 150-181 and 196-197: the key list, the first key, the old-keys line
RecvKeys ==
    /\ pc = "keys"
    /\ \E outcome \in KeysOutcomes :
         LET project == project_names[idx] IN
         IF outcome.k = "transport"
         THEN Fail("URLError")
              /\ UNCHANGED <<resp, payload, idx, trace>>
         ELSE LET r == make_response(outcome, 0)
                  decoded == json(r)
              IN  /\ resp' = r
                  /\ IF r.error_count > 0
                     THEN Fail("error getting ssh_keys")
                          /\ UNCHANGED <<payload, idx, trace>>
                     ELSE /\ IF decoded.t = "str"
                             THEN Fail("TypeError")
                                  /\ UNCHANGED <<payload, idx, trace>>
                             ELSE IF ~HasKey(decoded, "items")
                             THEN Fail("KeyError")
                                  /\ UNCHANGED <<payload, idx, trace>>
                             ELSE IF Len(decoded.v.items) = 0
                             THEN /\ idx' = idx + 1
                                  /\ pc' = "loop"
                                  /\ UNCHANGED <<payload, trace, err>>
                             ELSE LET key_info == decoded.v.items[1] IN
                                  IF IsLegacy(key_info)
                                  THEN /\ trace' = old_keys_write(trace, project, decoded)
                                       /\ payload' = PayloadType(key_info.type)
                                       /\ pc' = "create"
                                       /\ UNCHANGED <<idx, err>>
                                  ELSE /\ idx' = idx + 1
                                       /\ pc' = "loop"
                                       /\ UNCHANGED <<payload, trace, err>>
    /\ UNCHANGED <<argv, VCS, projects, project_names, rq>>

\* lines 183-184: the key-creation request is sent
SendCreate ==
    /\ pc = "create"
    /\ LET project == project_names[idx]
           sent == request_send(checkout_key_url(VCS, ORG, project), "POST", TRUE)
       IN  IF sent.how = "net"
           THEN /\ trace' = http_call(trace, sent, project, payload)
                /\ pc' = "post"
                /\ err' = err
           ELSE Fail(sent.how) /\ trace' = trace
    /\ resp' = NoResponse
    /\ UNCHANGED <<argv, VCS, projects, project_names, idx, payload, rq>>

\* lines 184-195: the key-creation response, the new-keys line
RecvCreate ==
    /\ pc = "post"
    /\ \E outcome \in CreateOutcomes(payload) :
         LET project == project_names[idx] IN
         IF outcome.k = "transport"
         THEN Fail("URLError") /\ UNCHANGED <<resp, idx, trace>>
         ELSE LET checkout_key_resp == make_response(outcome, 0) IN
              /\ resp' = checkout_key_resp
              /\ IF CreateSkipped(checkout_key_resp)
                 THEN /\ idx' = idx + 1
                      /\ pc' = "loop"
                      /\ UNCHANGED <<trace, err>>
                 ELSE IF CreateFailed(checkout_key_resp)
                 THEN Fail("error creating new checkout key")
                      /\ UNCHANGED <<idx, trace>>
                 ELSE /\ trace' = new_keys_write(trace, project,
                                                 json(checkout_key_resp))
                      /\ idx' = idx + 1
                      /\ pc' = "loop"
                      /\ err' = err
    /\ UNCHANGED <<argv, VCS, projects, project_names, payload, rq>>

Next == Start \/ RecvProjects \/ LoopNext \/ RecvKeys \/ SendCreate \/ RecvCreate

Spec == Init /\ [][Next]_vars

-----------------------------------------------------------------------------
(* The two log files, as this run has extended them.                       *)

EventsOf(effects, kinds) == SelectSeq(effects, LAMBDA e : e.ev \in kinds)

old_keys_file == EventsOf(trace, {"old_keys"})
new_keys_file == EventsOf(trace, {"new_keys"})
HttpCalls == EventsOf(trace, {"GET", "POST"})
Posts == EventsOf(trace, {"POST"})

-----------------------------------------------------------------------------
(* One call of request() on an arbitrary URL.                              *)

UrlHeads == {<<"h", "t", "t", "p">>, <<"h", "t", "t", "p", "s">>,
             <<"H", "T", "T", "P">>, <<"H", "t", "t", "p", "s">>,
             <<"h", "t", "t", "p", "x">>, <<"h", "t", "t">>,
             <<"f", "t", "p">>, <<"f", "i", "l", "e">>,
             <<"x", "h", "t", "t", "p">>, <<>>}
UrlTails == {<<":", "/", "/", "g", "/", "p">>, <<":", "/", "/", "g">>,
             <<":", "g">>, <<":", "/", "/", "/", "p">>, <<"/", "/", "g">>, <<>>}
Urls == {h \o t : h \in UrlHeads, t \in UrlTails}

Methods == {"GET", "get", "POST"}

RequestOutcomes == ErrorOutcomes \cup OkOutcomes(200, {OtherDict})

InitRequest ==
    /\ pc = "request"
    /\ argv \in {a \in Argvs : a.project = <<>> /\ a.vcs = GH}
    /\ VCS = <<>>
    /\ projects = <<>>
    /\ project_names = <<>>
    /\ idx = 1
    /\ payload = ""
    /\ resp = NoResponse
    /\ trace = <<>>
    /\ err = ""
    /\ \E u \in Urls, m \in Methods, d \in BOOLEAN, n \in {0, 1} :
         rq = [phase |-> "called", url |-> u, method |-> m, has_data |-> d,
               error_count |-> n, how |-> "", resp |-> NoResponse]

\* lines 44-72: the guard, the request is built and urlopen is called
RequestSend ==
    /\ rq.phase = "called"
    /\ LET sent == request_send(rq.url, rq.method, rq.has_data) IN
       /\ rq' = [rq EXCEPT !.how = sent.how,
                           !.phase = IF sent.how \in {"net", "local"}
                                     THEN "open" ELSE "raised"]
       /\ trace' = IF sent.how = "net" THEN http_call(trace, sent, <<>>, "")
                   ELSE trace
    /\ UNCHANGED <<pc, argv, VCS, projects, project_names, idx, payload, resp, err>>

\* lines 72-88: urlopen returns or raises, the Response is built
RequestReturn ==
    /\ rq.phase = "open"
    /\ \E outcome \in RequestOutcomes :
         IF outcome.k = "transport"
         THEN rq' = [rq EXCEPT !.phase = "raised", !.how = "URLError"]
         ELSE rq' = [rq EXCEPT !.phase = "returned",
                               !.resp = make_response(outcome, rq.error_count)]
    /\ UNCHANGED mainVars

NextRequest == RequestSend \/ RequestReturn

SpecRequest == InitRequest /\ [][NextRequest]_vars

-----------------------------------------------------------------------------
(* Vocabulary of the properties.                                           *)

SSH_RSA == <<"s", "s", "h", "-", "r", "s", "a">>

\* the key list is non-empty and its first key is a preferred ssh-rsa key
LegacyFirst(items) ==
    /\ Len(items) > 0
    /\ items[1].preferred
    /\ Len(items[1].public_key) >= Len(SSH_RSA)
    /\ \A i \in 1..Len(SSH_RSA) : items[1].public_key[i] = SSH_RSA[i]

\* the step consumes the answer to the request in flight
Answered(at) == pc = at /\ pc' # at

\* the answer consumed by the step is an HTTP response (not a transport failure)
HttpAnswered(at) == Answered(at) /\ err' # "URLError"

IsHttpError(status) == status >= 400

\* the projects of the settings response whose URL is <host>/ORG/<name> and
\* that have a follower, by name
EligibleNames ==
    {n \in UrlNames :
        \E i \in 1..Len(projects) :
            /\ projects[i].vcs_url = VcsHost \o <<"/">> \o ORG \o <<"/">> \o n
            /\ Len(projects[i].followers) >= 1}

\* the settings response has been decoded and filtered
Filtered == pc \in {"loop", "keys", "create", "post", "done"}

KeyGets == SelectSeq(trace, LAMBDA e : e.ev = "GET" /\ e.project # <<>>)

KeysFetched(org, name) ==
    \E i \in 1..Len(trace) :
        /\ trace[i].ev = "GET"
        /\ trace[i].url = API \o <<"/", "p", "/">> \o VCS \o <<"/">> \o org
                              \o <<"/">> \o name \o <<"/", "k">>

Count(effects, ev, project) ==
    Cardinality({i \in 1..Len(effects) :
                    effects[i].ev = ev /\ effects[i].project = project})

IsPrefix(a, b) == Len(a) <= Len(b) /\ SubSeq(b, 1, Len(a)) = a

-----------------------------------------------------------------------------
\* C1: for a project whose key list was read, the key-creation POST is issued
\* if and only if the list is non-empty and its first key is preferred and
\* its public key starts with "ssh-rsa"; otherwise no POST is issued and
\* nothing is appended to either log file for that project.
C1_Step ==
    /\ (Answered("keys") /\ pc' # "failed") =>
          IF LegacyFirst(json(resp').v.items)
          THEN /\ pc' = "create"
               /\ idx' = idx
               /\ Len(old_keys_file') = Len(old_keys_file) + 1
          ELSE /\ pc' = "loop"
               /\ idx' = idx + 1
               /\ trace' = trace
    /\ pc = "create" =>
          /\ Len(Posts') = Len(Posts) + 1
          /\ trace'[Len(trace')].project = project_names[idx]
    /\ Len(Posts') # Len(Posts) =>
          pc = "create" /\ LegacyFirst(json(resp).v.items)
    /\ old_keys_file' # old_keys_file =>
          Answered("keys") /\ LegacyFirst(json(resp').v.items)
    /\ new_keys_file' # new_keys_file =>
          /\ pc = "post"
          /\ trace[Len(trace)].ev = "POST"
          /\ trace[Len(trace)].project = project_names[idx]

C1_RotateIffLegacy == [][C1_Step]_vars

\* a run that rotated one project and left another one alone
C1_Witness ==
    /\ pc = "done"
    /\ Len(KeyGets) = 2
    /\ Len(Posts) = 1
    /\ Len(old_keys_file) = 1

\* C2: a key-creation POST answered 403 raises nothing, appends nothing to
\* new_keys and the run goes on to the next project; answered any other HTTP
\* error status, the run aborts.
C2_Step ==
    HttpAnswered("post") =>
        /\ resp'.status = 403 =>
              /\ pc' = "loop"
              /\ err' = ""
              /\ idx' = idx + 1
              /\ new_keys_file' = new_keys_file
        /\ (IsHttpError(resp'.status) /\ resp'.status # 403) => pc' = "failed"

C2_ForbiddenSkips == [][C2_Step]_vars

\* after a 403 the key list of the second project has been requested
C2_Witness ==
    /\ pc = "loop"
    /\ idx = 2
    /\ Len(project_names) = 2
    /\ resp.status = 403
    /\ Len(old_keys_file) = 1
    /\ new_keys_file = <<>>

\* C3: every fatal condition aborts the run in the step in which it occurs;
\* an aborted run issues no further HTTP call and writes no further line, and
\* what was written before stays as it was.
C3_Step ==
    /\ pc # "failed"
    /\ IsPrefix(trace, trace')
    /\ pc' = "failed" => trace' = trace
    /\ (pc = "start" /\ argv.vcs \notin {GH, BB, GITHUB, BITBUCKET}) =>
          pc' = "failed"
    /\ Answered("list") =>
          ((\/ IsHttpError(resp'.status)
            \/ ~resp'.body.valid
            \/ "projects" \notin DOMAIN resp'.body.value.v
            \/ (PROJECT # <<>> /\ PROJECT \notin EligibleNames'))
              => pc' = "failed")
    /\ (Answered("keys") /\ IsHttpError(resp'.status)) => pc' = "failed"
    /\ (Answered("post") /\ IsHttpError(resp'.status) /\ resp'.status # 403) =>
          pc' = "failed"
    /\ (Answered("list") \/ Answered("keys") \/ Answered("post")) =>
          (err' = "URLError" => pc' = "failed")

C3_FatalAborts == [][C3_Step]_vars

\* a run aborted at its second project, the first one rotated
C3_Witness ==
    /\ pc = "failed"
    /\ idx = 2
    /\ Len(old_keys_file) = 2
    /\ Len(new_keys_file) = 1
    /\ err = "error creating new checkout key"

\* C4: a project of the settings response is eligible exactly when it has a
\* follower and the organization of its URL is the configured one, compared
\* case-sensitively; the keys of a project with no follower or of another
\* organization are never requested.
C4_Eligibility ==
    /\ \A i \in 1..Len(KeyGets) : KeyGets[i].project \in EligibleNames
    /\ \A i \in 1..Len(projects) : \A o \in UrlOrgs, n \in UrlNames :
          (/\ projects[i].vcs_url = VcsHost \o <<"/">> \o o \o <<"/">> \o n
           /\ (Len(projects[i].followers) = 0 \/ o # ORG))
             => ~KeysFetched(o, n)
    /\ (Filtered /\ PROJECT = <<>>) =>
          /\ \A n \in UrlNames : InList(n, project_names) <=> n \in EligibleNames
          /\ Len(project_names) = Cardinality(EligibleNames)

\* the keys of a followed project were read, those of an unfollowed project
\* of the same organization were not
C4_Witness ==
    /\ pc = "done"
    /\ Len(projects) = 2
    /\ Len(KeyGets) = 1
    /\ KeysFetched(ORG, <<"w">>)
    /\ \E i \in 1..Len(projects) :
          projects[i].followers = <<>>
              /\ projects[i].vcs_url = VcsHost \o <<"/">> \o ORG \o <<"/", "x">>

\* C5: with a single-project filter, the keys of exactly that project are
\* requested when it is eligible, and otherwise the run fails with "project
\* not found" before any key-list request; with the empty filter every
\* eligible project is processed.
C5_SingleProject ==
    /\ PROJECT # <<>> =>
          /\ \A i \in 1..Len(KeyGets) : KeyGets[i].project = PROJECT
          /\ Len(KeyGets) <= 1
          /\ Filtered => (PROJECT \in EligibleNames /\ project_names = <<PROJECT>>)
          /\ pc \in {"keys", "create", "post", "done"} =>
                (Len(KeyGets) = 1 /\ KeysFetched(ORG, PROJECT))
          /\ (pc = "failed" /\ resp.body.valid /\ HasKey(json(resp), "projects")) =>
                /\ PROJECT \notin EligibleNames
                /\ err = "project name is not found in list of projects"
                /\ KeyGets = <<>>
    /\ PROJECT = <<>> =>
          /\ ~(pc = "failed" /\ resp.body.valid /\ HasKey(json(resp), "projects"))
          /\ Filtered =>
                /\ \A n \in EligibleNames : InList(n, project_names)
                /\ \A i \in 1..Len(project_names) :
                      i < idx => KeysFetched(ORG, project_names[i])
          /\ pc = "done" => \A n \in EligibleNames : KeysFetched(ORG, n)

\* two eligible projects, the filter names one: only its keys were requested
C5_Witness ==
    /\ pc = "done"
    /\ PROJECT = <<"w">>
    /\ EligibleNames = {<<"w">>, <<"x">>}
    /\ Len(KeyGets) = 1

\* C6: a rotation is, in this order and once each per project, the old_keys
\* line holding the raw key list, one POST to the project's checkout-key
\* endpoint, and on its success the new_keys line "<project> new prefered
\* key: <response>"; the new_keys line is written only once the POST has
\* returned successfully and the old_keys line before the POST is issued.
C6_Order ==
    \A i \in 1..Len(trace) :
        /\ trace[i].ev = "old_keys" =>
              /\ i > 1
              /\ trace[i - 1].ev = "GET"
              /\ trace[i - 1].project = trace[i].project
              /\ LegacyFirst(trace[i].data.text.v.items)
              /\ Count(trace, "old_keys", trace[i].project) = 1
        /\ trace[i].ev = "POST" =>
              /\ trace[i - 1].ev = "old_keys"
              /\ trace[i - 1].project = trace[i].project
              /\ trace[i].url = API \o <<"/", "p", "/">> \o VCS \o <<"/">> \o ORG
                                    \o <<"/">> \o trace[i].project \o <<"/", "k">>
              /\ Count(trace, "POST", trace[i].project) = 1
        /\ trace[i].ev = "new_keys" =>
              /\ trace[i - 1].ev = "POST"
              /\ trace[i - 1].project = trace[i].project
              /\ trace[i].data.project = trace[i].project
              /\ trace[i].data.label = "new prefered key:"
              /\ Count(trace, "new_keys", trace[i].project) = 1

C6_Step ==
    /\ new_keys_file' # new_keys_file =>
          /\ Answered("post")
          /\ resp'.status \in 200..299
          /\ trace'[Len(trace')].data.key = json(resp')
    /\ (HttpAnswered("post") /\ resp'.status \in 200..299) =>
          /\ Len(new_keys_file') = Len(new_keys_file) + 1
          /\ trace'[Len(trace')].project = project_names[idx]
    /\ (pc = "post" /\ ~(HttpAnswered("post") /\ resp'.status \in 200..299)) =>
          new_keys_file' = new_keys_file
    /\ Len(Posts') # Len(Posts) => trace[Len(trace)].ev = "old_keys"

C6_RotationOrder == []C6_Order /\ [][C6_Step]_vars

\* two projects rotated one after the other
C6_Witness ==
    /\ pc = "done"
    /\ Len(old_keys_file) = 2
    /\ Len(Posts) = 2
    /\ Len(new_keys_file) = 2

\* C8: the POST body's type is "user-key" when the type of the legacy key is
\* exactly "github-user-key" and "deploy-key" for every other type.
C8_PayloadType ==
    \A i \in 1..Len(trace) :
        trace[i].ev = "POST" =>
            LET legacy == trace[i - 1].data.text.v.items[1] IN
            /\ trace[i].data \in {"user-key", "deploy-key"}
            /\ trace[i].data = "user-key" <=> legacy.type = "github-user-key"

\* a legacy key of type "user-key" was replaced by a deploy-key
C8_Witness ==
    \E i \in 1..Len(trace) :
        /\ trace[i].ev = "POST"
        /\ trace[i].data = "deploy-key"
        /\ trace[i - 1].data.text.v.items[1].type = "user-key"

\* C9, as the specification states it: a successful response whose body is
\* not JSON makes no step of the workflow fail.
C9_MalformedStep ==
    /\ \/ Answered("list")
       \/ Answered("keys")
       \/ Answered("post")
    /\ err' # "URLError"
    /\ resp'.error_count = 0
    /\ ~resp'.body.valid

C9_MalformedNeverFails == [][C9_MalformedStep => pc' # "failed"]_vars

\* C9, as the program behaves: json() yields "" for such a body without
\* raising; key creation does not fail on it and logs the empty text as the
\* new key; project listing aborts with "no projects found in response" and
\* checkout-key listing aborts with a TypeError.
C9_Step ==
    C9_MalformedStep =>
        /\ json(resp').t = "str"
        /\ json(resp').v = ""
        /\ pc = "list" =>
              pc' = "failed" /\ err' = "no projects found in response"
        /\ pc = "keys" => pc' = "failed" /\ err' = "TypeError"
        /\ pc = "post" =>
              /\ pc' = "loop"
              /\ err' = ""
              /\ Len(new_keys_file') = Len(new_keys_file) + 1
              /\ trace'[Len(trace')].data.key.t = "str"
              /\ trace'[Len(trace')].data.key.v = ""

C9_MalformedBody == [][C9_Step]_vars

\* a run that ended normally after logging an empty new key
C9_Witness ==
    /\ pc = "done"
    /\ new_keys_file # <<>>
    /\ new_keys_file[1].data.key.t = "str"

\* C10: the run has appended at most as many new_keys lines as old_keys
\* lines, every new_keys line follows an old_keys line of the same project,
\* there are as many old_keys lines as POSTs issued or about to be issued,
\* and a POST that ends in 403 or in a fatal error leaves its old_keys line
\* without a new_keys line.
C10_Logs ==
    /\ Len(new_keys_file) <= Len(old_keys_file)
    /\ \A i \in 1..Len(trace) :
          trace[i].ev = "new_keys" =>
              \E j \in 1..(i - 1) :
                  trace[j].ev = "old_keys" /\ trace[j].project = trace[i].project
    /\ Len(old_keys_file) = Len(Posts) + (IF pc = "create" THEN 1 ELSE 0)

C10_Step ==
    (Answered("post") /\ (err' = "URLError" \/ IsHttpError(resp'.status))) =>
        /\ Count(trace', "old_keys", project_names[idx]) = 1
        /\ Count(trace', "new_keys", project_names[idx]) = 0
        /\ Len(old_keys_file') - Len(new_keys_file') =
              Len(old_keys_file) - Len(new_keys_file)

C10_LogConsistency == []C10_Logs /\ [][C10_Step]_vars

\* a run that ended with an old_keys line that has no new_keys line
C10_Witness ==
    /\ pc = "done"
    /\ resp.status = 403
    /\ Len(old_keys_file) = 2
    /\ Len(new_keys_file) = 1

-----------------------------------------------------------------------------
\* C7: request() fails without a network call for every URL that does not
\* start with "http://" or "https://", compared without regard to case; only
\* URLs that do reach the network.
HttpPrefixed(url) ==
    \/ StartsWith(casefold(url), <<"h", "t", "t", "p", ":", "/", "/">>)
    \/ StartsWith(casefold(url), <<"h", "t", "t", "p", "s", ":", "/", "/">>)

C7_HttpOnly ==
    /\ (rq.phase \in {"open", "raised", "returned"} /\ ~HttpPrefixed(rq.url)) =>
          rq.phase = "raised" /\ trace = <<>>
    /\ trace # <<>> => HttpPrefixed(rq.url)

\* a URL that passes the guard of request() and is refused by urlopen
C7_Witness ==
    /\ rq.phase = "raised"
    /\ rq.how = "URLError"
    /\ rq.url = <<"h", "t", "t", "p", "x", ":", "/", "/", "g", "/", "p">>
    /\ trace = <<>>

====
